---------------------------- MODULE Spec2Model ----------------------------
(***************************************************************************)
(* Slow-mode SPIN (src/lib/spin_slow.cpp): the capture / uncapture /       *)
(* switch protocol that serialises the logical threads of a program onto   *)
(* one executor at a time.                                                 *)
(*                                                                         *)
(* Every OS thread t has a position pc[t] in the code.  A handler is cut   *)
(* only where the code itself can be interleaved: where it acquires        *)
(* executorMutex, where it waits on waitLocks[tid], and, inside            *)
(* TraceGuard, between its three stages (capture, delayed uncapture, the   *)
(* park loop), which all run with executorMutex held.  A failed assert or  *)
(* a panic stops the process: halted becomes TRUE and nothing else moves.  *)
(***************************************************************************)
EXTENDS Naturals, FiniteSets

\* Number of OS threads (thread ids 0 .. NumThreads-1) the program creates.
NumThreads == 2

\* #define MAX_THREADS 2048
MAX_THREADS == 2048

\* -1u, the "no thread" value of executorTid, curTid and switchReg.  The
\* model never computes with it: it only compares it, and the largest integer
\* of the checker compares as 2^32 - 1 does (no thread id, above MAX_THREADS).
NoTid == 2147483647

Tids == 0 .. (NumThreads - 1)

\* enum ThreadState
ThreadState == {"UNCAPTURED", "BLOCKED", "IDLE", "RUNNING"}

\* What a policy hook or a switchcall can hand back: a thread id of the
\* program, or an id that is out of range.
TidInputs == Tids \cup {MAX_THREADS}

VARIABLES
    threadStates,          \* std::array<ThreadState, MAX_THREADS>
    waitLocks,             \* per thread mutex: TRUE = locked
    executorTid,
    curTid,
    capturedThreads,
    executorInSyscall,
    blockAfterSwitchcall,
    executorMutex,         \* the thread that holds it, or NoTid
    executorReg,           \* executorReg of the context OS thread t runs
    switchReg,             \* switchReg of the context OS thread t runs
    pc,                    \* where OS thread t is
    halted,                \* a panic or a failed assert ended the process
    last                   \* history: the step that led to this state

vars == <<threadStates, waitLocks, executorTid, curTid, capturedThreads,
          executorInSyscall, blockAfterSwitchcall, executorMutex,
          executorReg, switchReg, pc, halted, last>>

\* Executor state, "all strictly protected by executorMutex".
execState == <<threadStates, executorTid, curTid, capturedThreads,
               executorInSyscall, blockAfterSwitchcall>>

Positions == {"none", "ThreadStart", "started", "TraceGuard", "TG_deferred",
              "TG_loop", "TG_park", "TG_woke", "TG_check", "exec", "syscall",
              "SyscallGuard", "SH_entry", "SwitchHandler", "blockIdleThread",
              "unblock", "ThreadFini"}

TypeOK ==
    /\ threadStates \in [Tids -> ThreadState]
    /\ waitLocks \in [Tids -> BOOLEAN]
    /\ executorTid \in Tids \cup {NoTid}
    /\ curTid \in Tids \cup {NoTid}
    /\ capturedThreads \in 0 .. NumThreads
    /\ executorInSyscall \in BOOLEAN
    /\ blockAfterSwitchcall \in BOOLEAN
    /\ executorMutex \in Tids \cup {NoTid}
    /\ executorReg \in [Tids -> {0, 1}]
    /\ switchReg \in [Tids -> TidInputs \cup {NoTid}]
    /\ pc \in [Tids -> Positions]
    /\ halted \in BOOLEAN
    /\ last.op \in STRING
    /\ last.tid \in Tids \cup {NoTid}

\* spin::init
Init ==
    /\ threadStates = [t \in Tids |-> "UNCAPTURED"]
    /\ waitLocks = [t \in Tids |-> TRUE]
    /\ curTid = NoTid
    /\ executorTid = NoTid
    /\ executorInSyscall = FALSE
    /\ blockAfterSwitchcall = FALSE
    /\ capturedThreads = 0
    /\ executorMutex = NoTid
    /\ executorReg = [t \in Tids |-> 0]
    /\ switchReg = [t \in Tids |-> NoTid]
    /\ pc = [t \in Tids |-> "none"]
    /\ halted = FALSE
    /\ last = [op |-> "init", tid |-> NoTid, hook |-> <<>>]

\* The history variable: OS thread t has just taken step op, in which it
\* called the tool's callback hook (<<>>: none), e.g. <<"uncapture", tid, nextTid>>.
DidHook(t, op, hook) == last' = [op |-> op, tid |-> t, hook |-> hook]

Did(t, op) == DidHook(t, op, <<>>)

\* panic(...) or a failed assert(...): the process ends where it stands, with
\* executorMutex still held if the handler held it.  The checks that can fail
\* in a reachable state all come before the handler's first write of executor
\* state, so a halted state shows the executor state as it was.
PanicHook(t, hook) ==
    /\ halted' = TRUE
    /\ DidHook(t, "panic", hook)
    /\ UNCHANGED <<threadStates, waitLocks, executorTid, curTid,
                   capturedThreads, executorInSyscall, blockAfterSwitchcall,
                   executorMutex, executorReg, switchReg, pc>>

Panic(t) == PanicHook(t, <<>>)

\* executorMutex.lock() by t at position from, which continues at position to.
Lock(t, from, to) ==
    /\ ~halted
    /\ pc[t] = from
    /\ executorMutex = NoTid
    /\ executorMutex' = t
    /\ pc' = [pc EXCEPT ![t] = to]
    /\ Did(t, "lock")
    /\ UNCHANGED <<threadStates, waitLocks, executorTid, curTid,
                   capturedThreads, executorInSyscall, blockAfterSwitchcall,
                   executorReg, switchReg, halted>>

\* Mutant of UnlockAndResume: the handler goes on without unlocking.
ResumeLocked(t, er, sr, to) ==
    /\ executorMutex' = executorMutex
    /\ executorReg' = [executorReg EXCEPT ![t] = er]
    /\ switchReg' = [switchReg EXCEPT ![t] = sr]
    /\ pc' = [pc EXCEPT ![t] = to]
    /\ halted' = halted

\* executorMutex.unlock(), then PIN_SetContextReg(executorReg, er),
\* PIN_SetContextReg(switchReg, sr) and PIN_ExecuteAt: t goes on at position to.
UnlockAndResume(t, er, sr, to) ==
    /\ executorMutex' = NoTid
    /\ executorReg' = [executorReg EXCEPT ![t] = er]
    /\ switchReg' = [switchReg EXCEPT ![t] = sr]
    /\ pc' = [pc EXCEPT ![t] = to]
    /\ halted' = halted


(***************************************************************************)
(* Thread start and finish                                                 *)
(***************************************************************************)

\* ThreadStart: executorMutex.lock()
ThreadStartLock(t) == Lock(t, "none", "ThreadStart")

\* ThreadStart: threadStartCallback(tid); assert(UNCAPTURED); executorReg = 0
ThreadStart(t) ==
    /\ ~halted
    /\ pc[t] = "ThreadStart"
    /\ IF threadStates[t] # "UNCAPTURED"
       THEN PanicHook(t, <<"threadStart", t>>)
       ELSE /\ UnlockAndResume(t, 0, switchReg[t], "started")
            /\ DidHook(t, "ThreadStart", <<"threadStart", t>>)
            /\ UNCHANGED <<threadStates, waitLocks, executorTid, curTid,
                           capturedThreads, executorInSyscall,
                           blockAfterSwitchcall>>

\* ThreadFini: executorMutex.lock().  A thread ends inside its exit syscall.
ThreadFiniLock(t) == Lock(t, "syscall", "ThreadFini")

\* ThreadFini's check of the state the thread ends in.
ThreadFiniAllowed(t) ==
    IF threadStates[t] = "RUNNING"
    THEN capturedThreads = 1
    ELSE threadStates[t] = "UNCAPTURED"

\* ThreadFini: the asserts, threadEndCallback(tid).  No executor state is
\* written, in either branch.
ThreadFini(t) ==
    /\ ~halted
    /\ pc[t] = "ThreadFini"
    /\ IF ~ThreadFiniAllowed(t)
       THEN Panic(t)
       ELSE /\ UnlockAndResume(t, executorReg[t], switchReg[t], "none")
            /\ DidHook(t, "ThreadFini", <<"threadEnd", t>>)
            /\ UNCHANGED <<threadStates, waitLocks, executorTid, curTid,
                           capturedThreads, executorInSyscall,
                           blockAfterSwitchcall>>

(***************************************************************************)
(* UncaptureAndSwitch (called with executorMutex held)                     *)
(***************************************************************************)

\* Mutant of UncaptureOk: the state of the thread the hook returns is not
\* checked.
UncaptureOkAnyState(nextTid) ==
    /\ nextTid < MAX_THREADS
    /\ nextTid \in Tids
    /\ curTid \in Tids
    /\ threadStates[curTid] = "RUNNING"

\* nextTid = uncaptureCallback(curTid, ...) passes both panics and the
\* asserts on threadStates[curTid] and threadStates[nextTid].
UncaptureOk(nextTid) ==
    /\ nextTid < MAX_THREADS
    /\ nextTid \in Tids
    /\ threadStates[nextTid] = "IDLE"
    /\ curTid \in Tids
    /\ threadStates[curTid] = "RUNNING"

\* Mutant of UncapturedStates: the thread switched to is not marked RUNNING.
UncapturedStatesNoRunning(nextTid) ==
    [threadStates EXCEPT ![curTid] = "UNCAPTURED"]

\* threadStates after UncaptureAndSwitch.
UncapturedStates(nextTid) ==
    [threadStates EXCEPT ![curTid] = "UNCAPTURED", ![nextTid] = "RUNNING"]

\* Mutant of UncaptureAndSwitch: capturedThreads is not decremented.
UncaptureAndSwitchNoCount(nextTid) ==
    /\ capturedThreads' = capturedThreads
    /\ threadStates' = UncapturedStates(nextTid)
    /\ curTid' = nextTid

\* capturedThreads--; threadStates[curTid] = UNCAPTURED; curTid = nextTid;
\* threadStates[curTid] = RUNNING
UncaptureAndSwitch(nextTid) ==
    /\ capturedThreads' = capturedThreads - 1
    /\ threadStates' = UncapturedStates(nextTid)
    /\ curTid' = nextTid

(***************************************************************************)
(* TraceGuard (capture guard)                                              *)
(***************************************************************************)

\* RunTraceGuard: the guard runs for a thread whose executorReg is 0, i.e.
\* one that just started or that comes back from a syscall.
TraceGuardLock(t) ==
    /\ pc[t] \in {"started", "syscall"}
    /\ executorReg[t] = 0
    /\ Lock(t, pc[t], "TraceGuard")

\* Mutant of RunsNext: a second captured thread is taken for the first.
RunsNextOffByOne == capturedThreads <= 1

\* bool runsNext = (capturedThreads == 0)
RunsNext == capturedThreads = 0

\* The asserts of the "did not yield executor role" path.
FastPathOk(t) ==
    /\ executorTid = t
    /\ curTid = t
    /\ capturedThreads = 1

\* Mutant of FastPathInSyscall: the fast path leaves executorInSyscall set.
FastPathInSyscallKept == executorInSyscall

\* executorInSyscall after the fast path.
FastPathInSyscall == FALSE

\* TraceGuard up to the delayed uncapture: the fast path of a thread that is
\* still RUNNING, or the capture of an UNCAPTURED thread.
TraceGuardCapture(t) ==
    /\ ~halted
    /\ pc[t] = "TraceGuard"
    /\ IF threadStates[t] = "RUNNING"
       THEN IF ~FastPathOk(t)
            THEN Panic(t)
            ELSE /\ executorInSyscall' = FastPathInSyscall
                 /\ UnlockAndResume(t, 1, curTid, "exec")
                 /\ Did(t, "TraceGuard.fast")
                 /\ UNCHANGED <<threadStates, waitLocks, executorTid, curTid,
                                capturedThreads, blockAfterSwitchcall>>
       ELSE IF threadStates[t] # "UNCAPTURED"
            THEN Panic(t)
            ELSE IF RunsNext /\ curTid # NoTid
            THEN PanicHook(t, <<"capture", t, RunsNext>>)
            ELSE /\ capturedThreads' = capturedThreads + 1
                 /\ threadStates' = [threadStates EXCEPT
                        ![t] = IF RunsNext THEN "RUNNING" ELSE "IDLE"]
                 /\ curTid' = IF RunsNext THEN t ELSE curTid
                 /\ pc' = [pc EXCEPT ![t] = "TG_deferred"]
                 /\ DidHook(t, "TraceGuard.capture", <<"capture", t, RunsNext>>)
                 /\ UNCHANGED <<waitLocks, executorTid, executorInSyscall,
                                blockAfterSwitchcall, executorMutex,
                                executorReg, switchReg, halted>>

\* The asserts before the delayed uncapture.
DeferredOk ==
    /\ curTid = executorTid
    /\ capturedThreads = 2

\* TraceGuard: if (executorInSyscall) { UncaptureAndSwitch(); executorTid = -1u;
\* executorInSyscall = false; }   nextTid is what uncaptureCallback returns.
TraceGuardDeferred(t) ==
    \E nextTid \in TidInputs :
        /\ ~halted
        /\ pc[t] = "TG_deferred"
        /\ IF executorInSyscall
           THEN IF ~DeferredOk
                THEN Panic(t)
                ELSE IF ~UncaptureOk(nextTid)
                THEN PanicHook(t, <<"uncapture", curTid, nextTid>>)
                ELSE /\ UncaptureAndSwitch(nextTid)
                     /\ executorTid' = NoTid
                     /\ executorInSyscall' = FALSE
                     /\ pc' = [pc EXCEPT ![t] = "TG_loop"]
                     /\ DidHook(t, "TraceGuard.deferred",
                             <<"uncapture", curTid, nextTid>>)
                     /\ UNCHANGED <<waitLocks, blockAfterSwitchcall,
                                    executorMutex, executorReg, switchReg,
                                    halted>>
           ELSE /\ pc' = [pc EXCEPT ![t] = "TG_loop"]
                /\ Did(t, "TraceGuard.nodeferred")
                /\ UNCHANGED <<threadStates, waitLocks, executorTid, curTid,
                               capturedThreads, executorInSyscall,
                               blockAfterSwitchcall, executorMutex,
                               executorReg, switchReg, halted>>

\* Mutant of ExecutorTaken: the loop is entered only for one's own id, so a
\* thread claims the role while another thread holds it.
ExecutorTakenSelfOnly == FALSE

\* while (executorTid != -1u): somebody else is the executor.
ExecutorTaken == executorTid # NoTid

\* TraceGuard at the head of the park loop: park (unlock, then wait on
\* waitLocks[tid]) while there is an executor; otherwise become the executor
\* and run curTid's context.
TraceGuardLoop(t) ==
    /\ ~halted
    /\ pc[t] = "TG_loop"
    /\ IF ExecutorTaken
       THEN /\ UnlockAndResume(t, executorReg[t], switchReg[t], "TG_park")
            /\ Did(t, "TraceGuard.park")
            /\ UNCHANGED <<threadStates, waitLocks, executorTid, curTid,
                           capturedThreads, executorInSyscall,
                           blockAfterSwitchcall>>
       ELSE IF ~(curTid < MAX_THREADS)
            THEN Panic(t)
            ELSE /\ executorTid' = t
                 /\ UnlockAndResume(t, 1, curTid, "exec")
                 /\ Did(t, "TraceGuard.claim")
                 /\ UNCHANGED <<threadStates, waitLocks, curTid,
                                capturedThreads, executorInSyscall,
                                blockAfterSwitchcall>>

\* waitLocks[tid].lock(): returns once the slot has been unlocked, and locks it.
ParkWake(t) ==
    /\ ~halted
    /\ pc[t] = "TG_park"
    /\ ~waitLocks[t]
    /\ waitLocks' = [waitLocks EXCEPT ![t] = TRUE]
    /\ pc' = [pc EXCEPT ![t] = "TG_woke"]
    /\ Did(t, "TraceGuard.wake")
    /\ UNCHANGED <<threadStates, executorTid, curTid, capturedThreads,
                   executorInSyscall, blockAfterSwitchcall, executorMutex,
                   executorReg, switchReg, halted>>

\* executorMutex.lock() after the wake-up
ParkRelock(t) == Lock(t, "TG_woke", "TG_check")

\* After a wake-up: an UNCAPTURED thread takes its own syscall; any other goes
\* back to the loop head (claims the executor role if it is free, parks again
\* on a spurious wake-up).
TraceGuardCheck(t) ==
    /\ ~halted
    /\ pc[t] = "TG_check"
    /\ IF threadStates[t] = "UNCAPTURED"
       THEN /\ UnlockAndResume(t, 0, NoTid, "syscall")
            /\ Did(t, "TraceGuard.syscall")
            /\ UNCHANGED <<threadStates, waitLocks, executorTid, curTid,
                           capturedThreads, executorInSyscall,
                           blockAfterSwitchcall>>
       ELSE /\ pc' = [pc EXCEPT ![t] = "TG_loop"]
            /\ Did(t, "TraceGuard.recheck")
            /\ UNCHANGED <<threadStates, waitLocks, executorTid, curTid,
                           capturedThreads, executorInSyscall,
                           blockAfterSwitchcall, executorMutex, executorReg,
                           switchReg, halted>>

(***************************************************************************)
(* SyscallGuard (blocking-operation guard)                                 *)
(***************************************************************************)

\* RunSyscallGuard: the guard runs for a thread whose executorReg is 1.
SyscallGuardLock(t) ==
    /\ executorReg[t] = 1
    /\ Lock(t, "exec", "SyscallGuard")

\* Mutant of OthersCaptured: off by one.
OthersCapturedOffByOne == capturedThreads >= 1

\* if (capturedThreads >= 2): another captured thread can take over.
OthersCaptured == capturedThreads >= 2

\* Mutant of WakeSyscallTaker: the thread that has to take its syscall is not
\* woken.
WakeSyscallTakerLost(wakeTid) == waitLocks

\* waitLocks[wakeTid].unlock()  (wake syscall taker)
WakeSyscallTaker(wakeTid) == [waitLocks EXCEPT ![wakeTid] = FALSE]

\* Mutant of WakeNewExecutor: the thread switched to is not woken.
WakeNewExecutorLost(tid) == waitLocks

\* waitLocks[curTid].unlock()  (wake new executor)
WakeNewExecutor(tid) == [waitLocks EXCEPT ![tid] = FALSE]

\* SyscallGuard, the three cases.  nextTid is what uncaptureCallback returns.
SyscallGuard(t) ==
    \E nextTid \in TidInputs :
        /\ ~halted
        /\ pc[t] = "SyscallGuard"
        /\ IF executorTid # t
           THEN Panic(t)
           ELSE IF curTid # t
           THEN \* 1. ship the syscall to its thread, run another thread
                IF ~(capturedThreads >= 2)
                THEN Panic(t)
                ELSE IF ~UncaptureOk(nextTid)
                THEN PanicHook(t, <<"uncapture", curTid, nextTid>>)
                ELSE /\ UncaptureAndSwitch(nextTid)
                     /\ waitLocks' = WakeSyscallTaker(curTid)
                     /\ UnlockAndResume(t, 1, nextTid, "exec")
                     /\ DidHook(t, "SyscallGuard.foreign",
                             <<"uncapture", curTid, nextTid>>)
                     /\ UNCHANGED <<executorTid, executorInSyscall,
                                    blockAfterSwitchcall>>
           ELSE IF OthersCaptured
           THEN \* 2. wake another thread up as the executor, take the syscall
                IF ~UncaptureOk(nextTid)
                THEN PanicHook(t, <<"uncapture", curTid, nextTid>>)
                ELSE /\ UncaptureAndSwitch(nextTid)
                     /\ executorTid' = NoTid
                     /\ waitLocks' = WakeNewExecutor(nextTid)
                     /\ UnlockAndResume(t, 0, NoTid, "syscall")
                     /\ DidHook(t, "SyscallGuard.self",
                             <<"uncapture", curTid, nextTid>>)
                     /\ UNCHANGED <<executorInSyscall, blockAfterSwitchcall>>
           ELSE \* 3. the only captured thread: delayed uncapture
                IF executorInSyscall
                THEN Panic(t)
                ELSE /\ executorInSyscall' = TRUE
                     /\ UnlockAndResume(t, 0, NoTid, "syscall")
                     /\ Did(t, "SyscallGuard.sole")
                     /\ UNCHANGED <<threadStates, waitLocks, executorTid,
                                    curTid, capturedThreads,
                                    blockAfterSwitchcall>>

(***************************************************************************)
(* Switchcalls and SwitchHandler                                           *)
(***************************************************************************)

\* NeedsSwitch: reads curTid and blockAfterSwitchcall without the mutex.
NeedsSwitch(nextTid) == (nextTid # curTid) \/ blockAfterSwitchcall

\* A switchcall of the executor returns nextTid into switchReg; SwitchHandler
\* is entered (and waits for executorMutex) when NeedsSwitch says so.
Switchcall(t) ==
    \E nextTid \in TidInputs :
        /\ ~halted
        /\ pc[t] = "exec"
        /\ switchReg' = [switchReg EXCEPT ![t] = nextTid]
        /\ pc' = [pc EXCEPT ![t] =
                     IF NeedsSwitch(nextTid) THEN "SH_entry" ELSE "exec"]
        /\ Did(t, "Switchcall")
        /\ UNCHANGED <<threadStates, waitLocks, executorTid, curTid,
                       capturedThreads, executorInSyscall,
                       blockAfterSwitchcall, executorMutex, executorReg,
                       halted>>

\* SwitchHandler: executorMutex.lock()
SwitchHandlerLock(t) == Lock(t, "SH_entry", "SwitchHandler")

\* Mutant of SwitchOk: the state of nextTid is not checked.
SwitchOkAnyState(t, nextTid) ==
    /\ executorReg[t] = 1
    /\ ~(blockAfterSwitchcall /\ nextTid = curTid)
    /\ executorTid = t
    /\ nextTid # curTid
    /\ curTid <= MAX_THREADS
    /\ nextTid < MAX_THREADS
    /\ nextTid \in Tids
    /\ threadStates[curTid] = "RUNNING"

\* SwitchHandler's panics and asserts on the caller and on nextTid.
SwitchOk(t, nextTid) ==
    /\ executorReg[t] = 1
    /\ ~(blockAfterSwitchcall /\ nextTid = curTid)
    /\ executorTid = t
    /\ nextTid # curTid
    /\ curTid <= MAX_THREADS
    /\ nextTid < MAX_THREADS
    /\ nextTid \in Tids
    /\ threadStates[nextTid] = "IDLE"
    /\ threadStates[curTid] = "RUNNING"

\* Mutant of OutgoingState: the outgoing thread is left RUNNING.
OutgoingStateRunning == IF blockAfterSwitchcall THEN "BLOCKED" ELSE "RUNNING"

\* The state SwitchHandler leaves the outgoing thread in.
OutgoingState == IF blockAfterSwitchcall THEN "BLOCKED" ELSE "IDLE"

\* Mutant of SwitchCaptured: a blocked thread is still counted.
SwitchCapturedKept == capturedThreads

\* capturedThreads after SwitchHandler.
SwitchCaptured ==
    IF blockAfterSwitchcall THEN capturedThreads - 1 ELSE capturedThreads

\* SwitchHandler: the switch from curTid to switchReg.
SwitchHandler(t) ==
    /\ ~halted
    /\ pc[t] = "SwitchHandler"
    /\ IF ~SwitchOk(t, switchReg[t])
       THEN Panic(t)
       ELSE /\ threadStates' = [threadStates EXCEPT
                                   ![curTid] = OutgoingState,
                                   ![switchReg[t]] = "RUNNING"]
            /\ capturedThreads' = SwitchCaptured
            /\ blockAfterSwitchcall' = FALSE
            /\ curTid' = switchReg[t]
            /\ UnlockAndResume(t, 1, switchReg[t], "exec")
            /\ Did(t, "SwitchHandler")
            /\ UNCHANGED <<waitLocks, executorTid, executorInSyscall>>

(***************************************************************************)
(* Public interface, called from the tool's analysis code (the executor)   *)
(***************************************************************************)

\* blockAfterSwitch(): no mutex is taken.
blockAfterSwitch(t) ==
    /\ ~halted
    /\ pc[t] = "exec"
    /\ IF blockAfterSwitchcall
       THEN Panic(t)
       ELSE /\ blockAfterSwitchcall' = TRUE
            /\ Did(t, "blockAfterSwitch")
            /\ UNCHANGED <<threadStates, waitLocks, executorTid, curTid,
                           capturedThreads, executorInSyscall, executorMutex,
                           executorReg, switchReg, pc, halted>>

\* blockIdleThread: executorMutex.lock()
blockIdleThreadLock(t) == Lock(t, "exec", "blockIdleThread")

\* blockIdleThread's asserts.
BlockIdleOk(ts, captured, tid) ==
    /\ tid < MAX_THREADS
    /\ tid \in Tids
    /\ ts[tid] = "IDLE"
    /\ captured > 1

\* threadStates[tid] = BLOCKED
BlockIdleStates(ts, tid) == [ts EXCEPT ![tid] = "BLOCKED"]

\* Mutant of BlockIdleCaptured: capturedThreads is not decremented.
BlockIdleCapturedKept(captured) == captured

\* capturedThreads--
BlockIdleCaptured(captured) == captured - 1

\* blockIdleThread(tid)
blockIdleThread(t) ==
    \E tid \in TidInputs :
        /\ ~halted
        /\ pc[t] = "blockIdleThread"
        /\ IF ~BlockIdleOk(threadStates, capturedThreads, tid)
           THEN Panic(t)
           ELSE /\ threadStates' = BlockIdleStates(threadStates, tid)
                /\ capturedThreads' = BlockIdleCaptured(capturedThreads)
                /\ UnlockAndResume(t, executorReg[t], switchReg[t], "exec")
                /\ Did(t, "blockIdleThread")
                /\ UNCHANGED <<waitLocks, executorTid, curTid,
                               executorInSyscall, blockAfterSwitchcall>>

\* unblock: executorMutex.lock()
unblockLock(t) == Lock(t, "exec", "unblock")

\* unblock's asserts.
UnblockOk(ts, tid) ==
    /\ tid < MAX_THREADS
    /\ tid \in Tids
    /\ ts[tid] = "BLOCKED"

\* threadStates[tid] = IDLE
UnblockStates(ts, tid) == [ts EXCEPT ![tid] = "IDLE"]

\* Mutant of UnblockCaptured: capturedThreads is not incremented.
UnblockCapturedKept(captured) == captured

\* capturedThreads++
UnblockCaptured(captured) == captured + 1

\* unblock(tid)
unblock(t) ==
    \E tid \in TidInputs :
        /\ ~halted
        /\ pc[t] = "unblock"
        /\ IF ~UnblockOk(threadStates, tid)
           THEN Panic(t)
           ELSE /\ threadStates' = UnblockStates(threadStates, tid)
                /\ capturedThreads' = UnblockCaptured(capturedThreads)
                /\ UnlockAndResume(t, executorReg[t], switchReg[t], "exec")
                /\ Did(t, "unblock")
                /\ UNCHANGED <<waitLocks, executorTid, curTid,
                               executorInSyscall, blockAfterSwitchcall>>

(***************************************************************************)
(* The program                                                             *)
(***************************************************************************)

Next ==
    \E t \in Tids :
        \/ ThreadStartLock(t)
        \/ ThreadStart(t)
        \/ ThreadFiniLock(t)
        \/ ThreadFini(t)
        \/ TraceGuardLock(t)
        \/ TraceGuardCapture(t)
        \/ TraceGuardDeferred(t)
        \/ TraceGuardLoop(t)
        \/ ParkWake(t)
        \/ ParkRelock(t)
        \/ TraceGuardCheck(t)
        \/ SyscallGuardLock(t)
        \/ SyscallGuard(t)
        \/ Switchcall(t)
        \/ SwitchHandlerLock(t)
        \/ SwitchHandler(t)
        \/ blockAfterSwitch(t)
        \/ blockIdleThreadLock(t)
        \/ blockIdleThread(t)
        \/ unblockLock(t)
        \/ unblock(t)

Spec == Init /\ [][Next]_vars

\* The steps OS thread t takes inside a handler it has entered: everything it
\* does with executorMutex held, and the return of waitLocks[tid].lock() once
\* the slot is unlocked.  None of them waits for anything.
HandlerStep(t) ==
    \/ ThreadStart(t)
    \/ ThreadFini(t)
    \/ TraceGuardCapture(t)
    \/ TraceGuardDeferred(t)
    \/ TraceGuardLoop(t)
    \/ ParkWake(t)
    \/ TraceGuardCheck(t)
    \/ SyscallGuard(t)
    \/ SwitchHandler(t)
    \/ blockIdleThread(t)
    \/ unblock(t)

\* Fair scheduling: a thread inside a handler goes on (weak fairness), and a
\* woken thread that waits in executorMutex.lock() gets the mutex if it is
\* free again and again (strong fairness).  Nothing obliges a thread to start,
\* to come back from a syscall, to end, or the program to make a call.
Fairness ==
    \A t \in Tids : WF_vars(HandlerStep(t)) /\ SF_vars(ParkRelock(t))

LiveSpec == Spec /\ Fairness

(***************************************************************************)
(* Properties                                                              *)
(***************************************************************************)

\* The logical threads in state st.
InState(st) == {x \in Tids : threadStates[x] = st}

\* OS thread t, at position p, takes the step (which may be a panic).
StepAt(t, p) == pc[t] = p /\ last'.tid = t

\* C1: whenever executorMutex is free, capturedThreads > 0 means that exactly
\* one logical thread is RUNNING and that it is curTid, and capturedThreads = 0
\* means that no thread is RUNNING and that curTid is -1u.
C1_OneRunning ==
    executorMutex = NoTid =>
        IF capturedThreads > 0
        THEN curTid \in Tids /\ InState("RUNNING") = {curTid}
        ELSE InState("RUNNING") = {} /\ curTid = NoTid

\* C1's case: the executor has just handed over with UncaptureAndSwitch, and
\* the mutex is free again.
C1_Witness ==
    /\ executorMutex = NoTid
    /\ last.op \in {"SyscallGuard.self", "SyscallGuard.foreign"}
    /\ capturedThreads > 0
    /\ InState("UNCAPTURED") # {}

\* C2: whenever executorMutex is free, capturedThreads is the number of
\* logical threads that are IDLE or RUNNING.
C2_CapturedCount ==
    executorMutex = NoTid =>
        capturedThreads = Cardinality(InState("IDLE") \cup InState("RUNNING"))

\* C2's case: a switch with block-after-switch has left a BLOCKED thread,
\* which the count does not include.
C2_Witness ==
    /\ executorMutex = NoTid
    /\ last.op = "SwitchHandler"
    /\ InState("BLOCKED") # {}
    /\ capturedThreads = 1

\* C3 (state part): an OS thread that runs with executorReg = 1 is executorTid.
ExecutorIsExecutorTid ==
    \A t \in Tids : executorReg[t] = 1 => executorTid = t

\* C3 (step part): executorTid is set to t only by t itself, at the head of the
\* park loop, under the mutex and when executorTid is -1u; a thread that wakes
\* while captured and finds an executor parks again and changes nothing.
ClaimOnlyWhenFree ==
    \A t \in Tids :
        /\ (executorTid' = t /\ executorTid # t) =>
               /\ pc[t] = "TG_loop"
               /\ executorMutex = t
               /\ executorTid = NoTid
        /\ (StepAt(t, "TG_check") /\ threadStates[t] # "UNCAPTURED") =>
               /\ pc'[t] = "TG_loop"
               /\ UNCHANGED <<execState, waitLocks, executorReg>>
        /\ (StepAt(t, "TG_loop") /\ executorTid # NoTid) =>
               /\ pc'[t] = "TG_park"
               /\ executorReg'[t] = 0
               /\ UNCHANGED <<execState, waitLocks>>

\* C3: at no instant do two OS threads run in executor role, and the one that
\* does is executorTid; the role is claimed only when it is free.
C3_ExecutorExclusion == []ExecutorIsExecutorTid /\ [][ClaimOnlyWhenFree]_vars

\* C3's case: a woken thread found another executor and parked again, while
\* that executor runs.
C3_Witness ==
    /\ last.op = "TraceGuard.park"
    /\ executorTid \in Tids
    /\ executorTid # last.tid
    /\ executorReg[executorTid] = 1
    /\ threadStates[last.tid] = "RUNNING"

\* C4 (step part): capturedThreads does not fall from 1 or more to 0, and the
\* only captured thread, reaching SyscallGuard, is not uncaptured: it sets
\* executorInSyscall and leaves capturedThreads and the thread states alone.
NeverBelowOne ==
    /\ capturedThreads >= 1 => capturedThreads' >= 1
    /\ \A t \in Tids :
         (StepAt(t, "SyscallGuard") /\ executorTid = t /\ curTid = t
              /\ capturedThreads = 1) =>
            /\ ~halted'
            /\ executorInSyscall'
            /\ UNCHANGED <<capturedThreads, threadStates, curTid, executorTid>>

BadSwitchTarget(nextTid) ==
    \/ nextTid >= MAX_THREADS
    \/ nextTid \notin Tids
    \/ threadStates[nextTid] # "IDLE"
    \/ nextTid = curTid

\* C5 (step part): SwitchHandler, given such a target, halts and changes none
\* of threadStates, curTid, capturedThreads, blockAfterSwitchcall.
RejectsBadTarget ==
    \A t \in Tids :
        (StepAt(t, "SwitchHandler") /\ BadSwitchTarget(switchReg[t])) =>
            /\ halted'
            /\ UNCHANGED <<threadStates, curTid, capturedThreads,
                           blockAfterSwitchcall>>

\* C5: SwitchHandler halts on a target that is out of range, not IDLE, or the
\* current thread, and changes nothing.
C5_RejectsBadTarget == [][RejectsBadTarget]_vars

\* C5's case: SwitchHandler halted on the current thread, with
\* block-after-switch armed.
C5_Witness ==
    /\ halted
    /\ blockAfterSwitchcall
    /\ \E t \in Tids : pc[t] = "SwitchHandler" /\ switchReg[t] = curTid

\* Scenario 2: OS thread a is the executor and runs its own logical thread,
\* b is IDLE, block-after-switch is not armed, and a's switchcall named b.
Scenario2(a, b) ==
    /\ a # b
    /\ executorTid = a
    /\ curTid = a
    /\ threadStates[a] = "RUNNING"
    /\ threadStates[b] = "IDLE"
    /\ ~blockAfterSwitchcall
    /\ switchReg[a] = b

\* What SwitchHandler does to the thread states in scenario 2.
Switched(a, b) ==
    /\ ~halted'
    /\ threadStates'[b] = "RUNNING"
    /\ curTid' = b
    /\ threadStates'[a] = "IDLE"
    /\ capturedThreads' = capturedThreads

\* An IDLE thread leaves IDLE only by being selected (SwitchHandler or
\* UncaptureAndSwitch make it RUNNING and curTid) or by blockIdleThread.
IdleUntilSelected ==
    \A x \in Tids :
        (threadStates[x] = "IDLE" /\ threadStates'[x] # "IDLE") =>
            \/ /\ threadStates'[x] = "RUNNING"
               /\ curTid' = x
               /\ last'.op \in {"SwitchHandler", "SyscallGuard.self",
                                "SyscallGuard.foreign", "TraceGuard.deferred"}
            \/ /\ threadStates'[x] = "BLOCKED"
               /\ last'.op = "blockIdleThread"

\* C6 as claimed: after the switch executorTid names b.
C6_Original ==
    [][\A a, b \in Tids :
          (StepAt(a, "SwitchHandler") /\ Scenario2(a, b)) =>
              (Switched(a, b) /\ executorTid' = b)]_vars

\* C6, amended: in scenario 2 SwitchHandler ends with b RUNNING and curTid, a
\* IDLE and capturedThreads unchanged; executorTid still names a, whose OS
\* thread goes on as the executor in b's context; and an IDLE thread stays
\* IDLE until a switch or an uncapture-and-switch selects it, or
\* blockIdleThread blocks it.
C6_VoluntarySwitch ==
    [][/\ \A a, b \in Tids :
            (StepAt(a, "SwitchHandler") /\ Scenario2(a, b)) =>
                /\ Switched(a, b)
                /\ executorTid' = a
                /\ pc'[a] = "exec"
                /\ executorReg'[a] = 1
                /\ switchReg'[a] = b
       /\ IdleUntilSelected]_vars

\* C6's case: the executor has just switched away from its own logical thread.
C6_Witness ==
    /\ last.op = "SwitchHandler"
    /\ executorTid = last.tid
    /\ curTid # last.tid
    /\ threadStates[last.tid] = "IDLE"
    /\ threadStates[curTid] = "RUNNING"
    /\ capturedThreads = 2

\* C7 (SyscallGuard): the executor a, running its own logical thread with
\* another thread captured, calls the uncapture hook for a, becomes
\* UNCAPTURED, makes the returned IDLE thread RUNNING and curTid, decrements
\* capturedThreads, gives up executorTid and unlocks that thread's waitLock,
\* all under the mutex; a goes on to its syscall with executorReg = 0.
SelfBlockHandsOver ==
    \A a \in Tids :
        (StepAt(a, "SyscallGuard") /\ executorTid = a /\ curTid = a
             /\ capturedThreads >= 2 /\ ~halted') =>
            /\ executorMutex = a
            /\ last'.hook[1] = "uncapture" /\ last'.hook[2] = a
            /\ threadStates'[a] = "UNCAPTURED"
            /\ \E b \in Tids \ {a} :
                  /\ last'.hook[3] = b
                  /\ threadStates[b] = "IDLE"
                  /\ threadStates'[b] = "RUNNING"
                  /\ curTid' = b
                  /\ ~waitLocks'[b]
            /\ capturedThreads' = capturedThreads - 1
            /\ executorTid' = NoTid
            /\ pc'[a] = "syscall"
            /\ executorReg'[a] = 0

\* C7 (TraceGuard): an UNCAPTURED thread that enters while a thread is
\* captured becomes IDLE and is counted; at the loop head it claims the
\* executor role if it is free and parks otherwise.
RecaptureIdle ==
    \A a \in Tids :
        /\ (StepAt(a, "TraceGuard") /\ threadStates[a] = "UNCAPTURED"
                /\ capturedThreads >= 1) =>
               /\ ~halted'
               /\ threadStates'[a] = "IDLE"
               /\ capturedThreads' = capturedThreads + 1
        /\ (StepAt(a, "TG_loop") /\ capturedThreads >= 1) =>
               /\ ~halted'
               /\ IF executorTid = NoTid
                  THEN executorTid' = a /\ pc'[a] = "exec"
                  ELSE executorTid' = executorTid /\ pc'[a] = "TG_park"

\* A thread that is out in a syscall leaves a captured thread behind, so its
\* re-entry is the case of RecaptureIdle.
SyscallLeavesCaptured ==
    \A a \in Tids : pc[a] = "syscall" => capturedThreads >= 1

\* C7: scenario 3.
C7_SelfBlock ==
    /\ [][SelfBlockHandsOver /\ RecaptureIdle]_vars
    /\ [](SyscallLeavesCaptured /\ ExecutorIsExecutorTid)

\* C7's case: the executor has just uncaptured itself and woken another thread.
C7_Witness ==
    /\ last.op = "SyscallGuard.self"
    /\ threadStates[last.tid] = "UNCAPTURED"
    /\ pc[last.tid] = "syscall"
    /\ executorTid = NoTid
    /\ curTid \in Tids
    /\ ~waitLocks[curTid]
    /\ pc[curTid] = "TG_park"

\* The state of a thread that is the only captured thread and the executor.
SoleExecutor(t) ==
    /\ threadStates[t] = "RUNNING"
    /\ curTid = t
    /\ executorTid = t
    /\ capturedThreads = 1
    /\ ~executorInSyscall
    /\ pc[t] = "exec"
    /\ executorReg[t] = 1

\* C8 (steps): the thread captured as the only RUNNING thread becomes the sole
\* executor; when it comes back from its syscall still RUNNING, it is the sole
\* executor again.
SoleThreadRoundTrip ==
    \A t \in Tids :
        /\ (StepAt(t, "TG_loop") /\ threadStates[t] = "RUNNING"
               /\ capturedThreads = 1 /\ executorTid = NoTid) =>
               (~halted' /\ SoleExecutor(t)')
        /\ (StepAt(t, "TraceGuard") /\ threadStates[t] = "RUNNING") =>
               (~halted' /\ executorInSyscall /\ SoleExecutor(t)')

\* C8: scenario 1.
C8_SoleThread == [][SoleThreadRoundTrip]_vars

\* C8's case: the thread is back from its syscall through the fast path.
C8_Witness ==
    /\ last.op = "TraceGuard.fast"
    /\ SoleExecutor(last.tid)

\* C9 (functions): blockIdleThread(x) changes the state of x to BLOCKED and
\* decrements capturedThreads, and unblock(x) on the result gives back the
\* thread states and the count.
BlockUnblockRoundTrip ==
    \A x \in Tids :
        BlockIdleOk(threadStates, capturedThreads, x) =>
            LET ts == BlockIdleStates(threadStates, x)
                captured == BlockIdleCaptured(capturedThreads)
            IN  /\ ts[x] = "BLOCKED"
                /\ \A y \in Tids \ {x} : ts[y] = threadStates[y]
                /\ captured = capturedThreads - 1
                /\ UnblockOk(ts, x)
                /\ UnblockStates(ts, x) = threadStates
                /\ UnblockCaptured(captured) = capturedThreads

\* C9 (steps): the two calls do what these functions say and write nothing
\* else of the executor state.
BlockUnblockOnlyState ==
    \A t \in Tids :
        /\ (StepAt(t, "blockIdleThread") /\ ~halted') =>
              /\ \E x \in Tids :
                    /\ BlockIdleOk(threadStates, capturedThreads, x)
                    /\ threadStates' = BlockIdleStates(threadStates, x)
              /\ capturedThreads' = BlockIdleCaptured(capturedThreads)
              /\ UNCHANGED <<executorTid, curTid, executorInSyscall,
                             blockAfterSwitchcall, waitLocks>>
        /\ (StepAt(t, "unblock") /\ ~halted') =>
              /\ \E x \in Tids :
                    /\ UnblockOk(threadStates, x)
                    /\ threadStates' = UnblockStates(threadStates, x)
              /\ capturedThreads' = UnblockCaptured(capturedThreads)
              /\ UNCHANGED <<executorTid, curTid, executorInSyscall,
                             blockAfterSwitchcall, waitLocks>>

\* C9: blockIdleThread(t) followed by unblock(t) restores the state.
C9_BlockUnblock == []BlockUnblockRoundTrip /\ [][BlockUnblockOnlyState]_vars

\* C9's case: a thread was blocked and has just been unblocked, and is IDLE
\* with capturedThreads > 1 again.
C9_Witness ==
    /\ last.op = "unblock"
    /\ \E x \in Tids : BlockIdleOk(threadStates, capturedThreads, x)
    /\ InState("BLOCKED") = {}

\* C10 as claimed: when the thread that is RUNNING finishes, capturedThreads
\* is 0 afterwards.
C10_CountReachesZero ==
    [][\A t \in Tids :
          (StepAt(t, "ThreadFini") /\ threadStates[t] = "RUNNING"
               /\ ~halted') => capturedThreads' = 0]_vars

\* The tool was told that logical thread x has ended, and x ended RUNNING:
\* only ThreadFini leaves a RUNNING slot behind a thread that is gone.
FinishedRunning(x) == pc[x] = "none" /\ threadStates[x] = "RUNNING"

\* The step calls uncaptureCallback(x, ...).
UncaptureHookFor(x) ==
    /\ last'.hook # <<>>
    /\ last'.hook[1] = "uncapture"
    /\ last'.hook[2] = x

\* C11 as claimed: the uncapture hook is never called for a thread that
\* finished RUNNING, neither by its ThreadFini nor by any later step.
C11_NoUncaptureForFinished ==
    [][\A x \in Tids :
          /\ FinishedRunning(x) => ~UncaptureHookFor(x)
          /\ (StepAt(x, "ThreadFini") /\ threadStates[x] = "RUNNING") =>
                 ~UncaptureHookFor(x)]_vars

\* The state C12 excludes: the executor t is in SyscallGuard's first case
\* (curTid != tid) and fewer than two threads are captured.
ForeignBlockAlone(t) ==
    /\ pc[t] = "SyscallGuard"
    /\ executorTid = t
    /\ curTid # t
    /\ capturedThreads < 2

\* C12 as claimed: whenever SyscallGuard takes its first case,
\* capturedThreads >= 2.
C12_ForeignBlockHasTwo == \A t \in Tids : ~ForeignBlockAlone(t)

\* C13 (state part): a thread t that has been captured while
\* executorInSyscall is set finds exactly two threads captured, itself (IDLE)
\* and the executor that is out in its syscall (RUNNING, curTid, executorTid).
DeferredPending ==
    \A t \in Tids :
        (pc[t] = "TG_deferred" /\ executorInSyscall) =>
            /\ capturedThreads = 2
            /\ curTid = executorTid
            /\ curTid \in Tids \ {t}
            /\ InState("RUNNING") = {curTid}
            /\ InState("IDLE") = {t}
            /\ executorMutex = t

\* C13 (step part): the entrant t uncaptures the executor and switches to
\* itself, in the critical section of its capture, and then becomes the
\* executor; after the fast path of the old executor, and whenever
\* executorInSyscall is not set, an entrant leaves the executor state alone.
DeferredUncapture ==
    \A t \in Tids :
        /\ (StepAt(t, "TG_deferred") /\ executorInSyscall /\ ~halted') =>
               /\ last'.hook = <<"uncapture", executorTid, t>>
               /\ threadStates'[executorTid] = "UNCAPTURED"
               /\ ~executorInSyscall'
               /\ capturedThreads' = 1
               /\ threadStates'[t] = "RUNNING"
               /\ curTid' = t
               /\ executorTid' = NoTid
               /\ executorMutex' = t
               /\ pc'[t] = "TG_loop"
        /\ (StepAt(t, "TG_loop") /\ last.op = "TraceGuard.deferred") =>
               /\ ~halted'
               /\ executorTid' = t
               /\ pc'[t] = "exec"
               /\ executorReg'[t] = 1
               /\ switchReg'[t] = t
               /\ UNCHANGED <<threadStates, curTid, capturedThreads,
                              executorInSyscall>>
        /\ (StepAt(t, "TraceGuard") /\ threadStates[t] = "RUNNING") =>
               (~halted' /\ ~executorInSyscall' /\ last'.hook = <<>>)
        /\ (StepAt(t, "TG_deferred") /\ ~executorInSyscall) =>
               /\ last'.hook = <<>>
               /\ UNCHANGED <<execState, waitLocks>>

\* C13: the delayed uncapture.
C13_DeferredUncapture == []DeferredPending /\ [][DeferredUncapture]_vars

\* C13's case: an entrant has just run the delayed uncapture for an executor
\* that is still out in its syscall.
C13_Witness ==
    /\ last.op = "TraceGuard.deferred"
    /\ pc[last.hook[2]] = "syscall"
    /\ threadStates[last.hook[2]] = "UNCAPTURED"
    /\ threadStates[last.tid] = "RUNNING"
    /\ curTid = last.tid
    /\ capturedThreads = 1
    /\ ~executorInSyscall

\* There are captured threads and no executor, outside any critical section.
NoExecutor ==
    /\ executorTid = NoTid
    /\ capturedThreads > 0
    /\ executorMutex = NoTid

\* Some thread is the executor and runs curTid's context.
ExecutorRuns ==
    \E t \in Tids :
        /\ executorTid = t
        /\ executorReg[t] = 1
        /\ curTid \in Tids

\* C14 (state part): the state in which a wake-up is lost: no executor, and
\* every captured thread's OS thread waits on its locked waitLock.
LostWakeup ==
    /\ executorTid = NoTid
    /\ capturedThreads > 0
    /\ \A x \in InState("IDLE") \cup InState("RUNNING") :
           pc[x] = "TG_park" /\ waitLocks[x]

\* C14 (step part): the thread that takes the free executor role sets
\* executorTid to itself and resumes curTid's context.
ClaimResumesCurTid ==
    \A t \in Tids :
        (executorTid = NoTid /\ executorTid' = t) =>
            /\ pc'[t] = "exec"
            /\ executorReg'[t] = 1
            /\ switchReg'[t] = curTid
            /\ curTid' = curTid
            /\ threadStates[curTid] = "RUNNING"

\* C14: no lost wake-up.  Under fair scheduling, whenever threads are
\* captured and executorTid is -1u with the mutex free, some thread becomes
\* the executor and resumes curTid's context; and no state has every captured
\* thread parked on a locked waitLock while there is no executor.
C14_NoLostWakeup ==
    /\ NoExecutor ~> ExecutorRuns
    /\ []~LostWakeup
    /\ [][ClaimResumesCurTid]_vars

\* C14's case: a thread that came back from its syscall took the executor
\* role before the thread that SyscallGuard woke for it has woken up.
C14_Witness ==
    /\ last.op = "TraceGuard.claim"
    /\ executorTid = last.tid
    /\ \E b \in Tids \ {last.tid} :
          /\ curTid = b
          /\ threadStates[b] = "RUNNING"
          /\ pc[b] = "TG_park"
          /\ ~waitLocks[b]

\* The executor a is in SyscallGuard's first case: it runs the logical thread
\* curTid of another OS thread, and that thread is captured along with another.
ForeignBlock(a) ==
    /\ pc[a] = "SyscallGuard"
    /\ executorTid = a
    /\ curTid # a
    /\ capturedThreads >= 2

\* C15 (state part): in that case the OS thread of curTid is in TraceGuard's
\* park loop, outside the critical section.
SyscallTakerParked ==
    \A a \in Tids :
        ForeignBlock(a) =>
            /\ curTid \in Tids
            /\ threadStates[curTid] = "RUNNING"
            /\ pc[curTid] \in {"TG_park", "TG_woke"}

\* Logical thread x was uncaptured while its OS thread is in the park loop.
UncapturedWhileParked(x) ==
    /\ threadStates[x] = "UNCAPTURED"
    /\ pc[x] \in {"TG_park", "TG_woke", "TG_check"}

\* C15 (step part): SyscallGuard's first case makes curTid UNCAPTURED,
\* unlocks its waitLock, and the executor keeps the role and resumes the
\* thread the hook returned; the woken thread, finding itself UNCAPTURED,
\* resumes its own context with executorReg = 0 and writes no executor state.
ForeignHandOff ==
    /\ \A a \in Tids :
          (ForeignBlock(a) /\ last'.tid = a /\ ~halted') =>
              /\ executorMutex = a
              /\ threadStates'[curTid] = "UNCAPTURED"
              /\ ~waitLocks'[curTid]
              /\ last'.hook = <<"uncapture", curTid, curTid'>>
              /\ executorTid' = a
              /\ curTid' \in Tids \ {curTid}
              /\ threadStates'[curTid'] = "RUNNING"
              /\ pc'[a] = "exec"
              /\ executorReg'[a] = 1
              /\ switchReg'[a] = curTid'
    /\ \A x \in Tids :
          (UncapturedWhileParked(x) /\ last'.tid = x) =>
              /\ ~halted'
              /\ UNCHANGED execState
              /\ pc[x] = "TG_check" =>
                    /\ pc'[x] = "syscall"
                    /\ executorReg'[x] = 0
                    /\ switchReg'[x] = NoTid

AccessesExecState(t) ==
    /\ last'.tid = t
    /\ last'.op \notin {"lock", "TraceGuard.wake"}

\* C16 as claimed: a thread reads and writes executor state only while it
\* holds executorMutex.
C16_AllUnderLock ==
    [][\A t \in Tids : AccessesExecState(t) => executorMutex = t]_vars

\* The positions between executorMutex.lock() and unlock() of a handler.
InsideHandler ==
    {"ThreadStart", "ThreadFini", "TraceGuard", "TG_deferred", "TG_loop",
     "TG_check", "SyscallGuard", "SwitchHandler", "blockIdleThread",
     "unblock"}

\* C17 (state part): a thread holds executorMutex exactly while it is inside
\* a handler: not while it waits on its waitLock, and not once the handler has
\* transferred control or returned.
HoldsOnlyInside ==
    \A t \in Tids :
        /\ executorMutex = t <=> pc[t] \in InsideHandler
        /\ pc[t] \in {"TG_park", "TG_woke"} => executorMutex # t

\* C17 (step part): the mutex is taken only when free and released only by
\* its holder, by the step with which a handler parks, transfers control or
\* returns; a waitLock is unlocked only by a thread that holds the mutex.
LockSteps ==
    /\ \A t \in Tids :
          /\ (executorMutex' = t /\ executorMutex # t) =>
                 (executorMutex = NoTid /\ last'.tid = t)
          /\ (executorMutex = t /\ executorMutex' # t) =>
                 /\ executorMutex' = NoTid
                 /\ last'.tid = t
                 /\ ~halted'
                 /\ pc'[t] \notin InsideHandler
          /\ (executorMutex = t /\ last'.tid = t /\ ~halted'
                 /\ pc'[t] \notin InsideHandler) => executorMutex' = NoTid
    /\ \A x \in Tids :
          (waitLocks[x] /\ ~waitLocks'[x]) =>
              (last'.tid \in Tids /\ executorMutex = last'.tid)
    /\ last'.op \in {"SyscallGuard.foreign", "SyscallGuard.self"} =>
           executorMutex = last'.tid

\* C17: the lock discipline of the guards.
C17_LockDiscipline == []HoldsOnlyInside /\ [][LockSteps]_vars

\* C17's case: a thread has released the mutex and waits on its locked
\* waitLock, while another thread is inside a handler with the mutex.
C17_Witness ==
    \E t \in Tids :
        /\ pc[t] = "TG_park"
        /\ waitLocks[t]
        /\ executorMutex \in Tids \ {t}
        /\ pc[executorMutex] = "SyscallGuard"

\* C18 (step part): TraceGuard, entered by an UNCAPTURED thread t, calls
\* captureCallback(t, capturedThreads == 0) and counts t; the first captured
\* thread becomes RUNNING and curTid, which was -1u, any other becomes IDLE and
\* curTid stays; no other thread's state changes.
CaptureStep ==
    \A t \in Tids :
        (StepAt(t, "TraceGuard") /\ threadStates[t] = "UNCAPTURED") =>
            /\ ~halted'
            /\ last'.hook = <<"capture", t, capturedThreads = 0>>
            /\ capturedThreads' = capturedThreads + 1
            /\ \A x \in Tids \ {t} : threadStates'[x] = threadStates[x]
            /\ IF capturedThreads = 0
               THEN /\ curTid = NoTid
                    /\ threadStates'[t] = "RUNNING"
                    /\ curTid' = t
               ELSE /\ threadStates'[t] = "IDLE"
                    /\ curTid' = curTid

\* C18: the capture of an UNCAPTURED thread.
C18_Capture == [][CaptureStep]_vars

\* C18's case: a thread has just been captured as IDLE, next to the RUNNING
\* thread that was captured first.
C18_Witness ==
    /\ last.op = "TraceGuard.capture"
    /\ last.hook = <<"capture", last.tid, FALSE>>
    /\ threadStates[last.tid] = "IDLE"
    /\ curTid \in Tids \ {last.tid}
    /\ capturedThreads = 2

\* C19 (step part): SwitchHandler, given an IDLE target other than curTid,
\* consumes the flag: armed, the outgoing thread becomes BLOCKED and is no
\* longer counted; not armed, it becomes IDLE and the count stays.  Only
\* blockAfterSwitch sets the flag, and it is fatal when the flag is set.
OneShot ==
    /\ \A t \in Tids :
          /\ (StepAt(t, "SwitchHandler") /\ ~BadSwitchTarget(switchReg[t])) =>
                 /\ ~halted'
                 /\ ~blockAfterSwitchcall'
                 /\ threadStates'[switchReg[t]] = "RUNNING"
                 /\ IF blockAfterSwitchcall
                    THEN /\ threadStates'[curTid] = "BLOCKED"
                         /\ capturedThreads' = capturedThreads - 1
                    ELSE /\ threadStates'[curTid] = "IDLE"
                         /\ capturedThreads' = capturedThreads
          /\ (StepAt(t, "exec") /\ last'.op \in {"blockAfterSwitch", "panic"}) =>
                 IF blockAfterSwitchcall
                 THEN halted' /\ blockAfterSwitchcall'
                 ELSE ~halted' /\ blockAfterSwitchcall'
    /\ (~blockAfterSwitchcall /\ blockAfterSwitchcall') =>
           last'.op = "blockAfterSwitch"
    /\ (blockAfterSwitchcall /\ ~blockAfterSwitchcall') =>
           last'.op = "SwitchHandler"

\* C19: block-after-switch is one-shot.
C19_OneShot == [][OneShot]_vars

\* C19's case: a switch has consumed the flag and blocked the thread of the
\* executor itself.
C19_Witness ==
    /\ last.op = "SwitchHandler"
    /\ ~blockAfterSwitchcall
    /\ threadStates[last.tid] = "BLOCKED"
    /\ curTid \in Tids \ {last.tid}
    /\ threadStates[curTid] = "RUNNING"
    /\ InState("IDLE") = {}

\* C20 as claimed: ThreadStart always finds the slot of its id UNCAPTURED, a
\* finished thread having left it so.
C20_StartFindsUncaptured ==
    [][\A t \in Tids :
          /\ StepAt(t, "ThreadStart") => ~halted'
          /\ (StepAt(t, "ThreadFini") /\ ~halted') =>
                 threadStates'[t] = "UNCAPTURED"]_vars
=============================================================================
